---------------------------- MODULE Spec2Model ----------------------------
(***************************************************************************)
(* A model of kapy's native layer (src/lib): the growable, seekable        *)
(* in-memory byte stream BufStream (stream.c, stream.h) that is handed to  *)
(* the metadata codec as a set of stream callbacks.                        *)
(*                                                                         *)
(* One stream handle is followed from its construction (buf_stream_new or  *)
(* buf_stream_new_empty) through seek / read / write / get_data to         *)
(* buf_stream_free.  The heap is a small table of blocks, so that which    *)
(* block the stream points to, who owns it and whether it was freed are    *)
(* part of the state.                                                      *)
(*                                                                         *)
(* Beside it, one metadata session (exif.cpp: open, tag lookup, GPS        *)
(* insertion, save, destroy) and the native entry points of exif.c and     *)
(* add_gps.c are followed; what the metadata codec (Exiv2, gexiv2) does    *)
(* inside a call - whether it fails, what an image holds - is chosen       *)
(* nondeterministically.                                                   *)
(*                                                                         *)
(* A size_t value is written as the integer of least magnitude congruent   *)
(* to it modulo 2^64: 0 - 1 stands for 2^64 - 1.  Sums and differences of  *)
(* the small values followed here are then the integer ones, and only the  *)
(* unsigned comparisons have to be told that a negative numeral is a huge  *)
(* value (ULt).                                                            *)
(***************************************************************************)
EXTENDS Integers, Sequences, FiniteSets, TLC

(***************************************************************************)
(* Bounds of the model.                                                    *)
(***************************************************************************)
\* Seeks are followed while the cursor stays within
\* 0 - MaxBack .. MaxCursor (as size_t: the MaxBack values below 2^64, and
\* 0 .. MaxCursor).
MaxCursor == 7
MaxBack == 1
\* Longest caller span wrapped by buf_stream_new.
MaxSpan == 5
\* Largest initial_size passed to buf_stream_new_empty.
MaxInit == 5
\* Largest count of a read or a write.
MaxCount == 2
\* Largest magnitude of a seek offset.
MaxOff == 1
\* Number of buf_stream_write calls followed (SpecDeep follows one more).
MaxWrites == 1
\* Largest heap block id.
MaxBlock == 4
\* incr_count is followed exactly up to this value (the code only ever
\* tests incr_count > 0).
MaxIncrCount == 2

(***************************************************************************)
(* Values.                                                                 *)
(***************************************************************************)
\* The content of a byte nobody has written: malloc'ed and never
\* initialised, or lying outside the allocated block.
Uninit == -1
\* The NULL pointer.
NoBlock == -2
\* Largest gint32.
Int32Max == 2147483647

Blocks == 0 .. MaxBlock
Cursors == (0 - MaxBack) .. MaxCursor
Counts == 0 .. MaxCount
Offsets == (0 - MaxOff) .. MaxOff
Origins == {"Begin", "Current", "End"}
\* The sizes a stream is constructed with.
SpanSizes == {0, MaxSpan}
InitSizes == {0, MaxInit - 1, MaxInit}
\* Bytes a write stores (the source buffer holds count copies of one).
FillBytes == {9}
\* What the uncleared BufStream of s_buf_stream_new may hold in moved and
\* in incr_count.
Uncleared == {<<0, 0>>, <<1, 0>>, <<0, 1>>}

VARIABLES
    phase,       \* "none": no stream yet; "open": *cb is a stream;
                 \* "freed": buf_stream_free ran, *cb = NULL;
                 \* "crashed": the process died of undefined behaviour
    pc,          \* "idle", or "write": inside buf_stream_write's loop
    wcount,      \* count of the buf_stream_write call in progress
    wsrc,        \* the bytes that call is to store
    curr,        \* BufStream.curr
    buf,         \* BufStream.buf: a block id
    length,      \* BufStream.length
    capacity,    \* BufStream.capacity
    moved,       \* BufStream.moved
    incr_count,  \* BufStream.incr_count
    heap,        \* block id -> [st, owner, data]
    ret,         \* <<n>> when the latest call was a buf_stream_read that
                 \* returned n, <<>> after any other call
    rbuf,        \* the bytes the latest call copied out to its caller
    detached,    \* the block buf_stream_get_data returned, or NoBlock
    out_len,     \* the length buf_stream_get_data reported
    kind,        \* "wrap": made by buf_stream_new; "empty": made by
                 \* buf_stream_new_empty; "none" before
    blob,        \* the span buf_stream_new was given, as it was then
    oob,         \* some access fell outside its block
    badfree,     \* free() was given a block that is not a live block
                 \* allocated by the stream
    nwrites,     \* buf_stream_write calls so far
    xphase,      \* the metadata session: "none", "open" (an image is
                 \* loaded), "destroyed", "crashed"
    img_exif,    \* the EXIF tags the opened image holds: key -> value
    img_xmp,     \* the XMP tags the opened image holds
    exif,        \* image->exifData(), the EXIF dictionary in memory
    xmp,         \* image->xmpData(), the XMP dictionary in memory
    xop,         \* the latest metadata or native call
    xargs,       \* its arguments and, where the codec can fail, how it fared
    xrc,         \* the number it returned
    xstr,        \* the string it returned: <<>> is NULL, <<s>> is s
    out_set,     \* it assigned *out_blob
    gps_added,   \* exif_metadata_add_gps_info has run on the open image
    xbadfree,    \* it gave free() a pointer that malloc never returned
    vals,        \* the array native_get_tags_from_path returned: <<>> is
                 \* NULL, a slot is <<>> (NULL) or <<s>> (the string s)
    copied_mime  \* the block native_get_tags_from_path allocated for the
                 \* mime type: its size, and the bytes stored from its
                 \* start on

\* The stream and the heap.
streamVars == <<phase, pc, wcount, wsrc, curr, buf, length, capacity, moved,
                incr_count, heap, ret, rbuf, detached, out_len, kind, blob,
                oob, badfree, nwrites>>

\* The metadata session and the result of the latest call on it.
metaVars == <<xphase, img_exif, img_xmp, exif, xmp, xop, xargs, xrc, xstr,
              out_set, gps_added, xbadfree, vals, copied_mime>>

vars == <<phase, pc, wcount, wsrc, curr, buf, length, capacity, moved,
          incr_count, heap, ret, rbuf, detached, out_len, kind, blob, oob,
          badfree, nwrites, xphase, img_exif, img_xmp, exif, xmp, xop, xargs,
          xrc, xstr, out_set, gps_added, xbadfree, vals, copied_mime>>

(***************************************************************************)
(* Arithmetic.                                                             *)
(***************************************************************************)
Min(a, b) == IF a <= b THEN a ELSE b

\* a < b, a > b and a >= b for size_t values.
ULt(a, b) == IF (a < 0) = (b < 0) THEN a < b ELSE b < 0
UGt(a, b) == ULt(b, a)
UGe(a, b) == ~ULt(a, b)

\* (gint32) x for a size_t x: the low 32 bits, read as signed.
ToInt32(x) ==
    IF x > Int32Max THEN x - Int32Max - Int32Max - 2
    ELSE IF x < 0 - Int32Max - 1 THEN x + Int32Max + Int32Max + 2
    ELSE x

\* (size_t)((double) c * BUF_INCR_RATE), BUF_INCR_RATE = 1.2: the product is
\* truncated toward zero.
GrownCapacity(c) == (c * 6) \div 5

(***************************************************************************)
(* The heap.                                                               *)
(***************************************************************************)
FreshBlock == [st |-> "unalloc", owner |-> "none", data |-> <<>>]

\* malloc: the block it returns.
AllocId(h) == CHOOSE b \in Blocks :
                  /\ h[b].st # "live"
                  /\ \A c \in Blocks : h[c].st # "live" => b <= c
CanAlloc(h) == \E b \in Blocks : h[b].st # "live"

\* The content of a block of n bytes fresh from malloc.
Garbage(n) == [i \in 1 .. n |-> Uninit]

\* Byte i (from 0) of block content d; outside the block the value is
\* indeterminate.
ByteAt(d, i) == IF 0 <= i /\ i < Len(d) THEN d[i + 1] ELSE Uninit

\* memcpy(d + at, src, Len(src)) onto block content d: the bytes that fall
\* inside the block.
Store(d, at, src) ==
    [i \in 1 .. Len(d) |->
        IF i - 1 >= at /\ i - 1 < at + Len(src) THEN src[i - at] ELSE d[i]]

\* free(b) on heap h.
FreeBlock(h, b) ==
    IF b \in Blocks /\ h[b].st = "live"
    THEN [h EXCEPT ![b] = [st |-> "freed", owner |-> h[b].owner, data |-> <<>>]]
    ELSE h
\* free(b) is a free of a live block the stream allocated.
GoodFree(h, b) == b \in Blocks /\ h[b].st = "live" /\ h[b].owner = "stream"

(***************************************************************************)
(* Initial state: no stream has been constructed.                          *)
(***************************************************************************)
Init ==
    /\ phase = "none"
    /\ pc = "idle"
    /\ wcount = 0
    /\ wsrc = <<>>
    /\ curr = 0
    /\ buf = NoBlock
    /\ length = 0
    /\ capacity = 0
    /\ moved = 0
    /\ incr_count = 0
    /\ heap = [b \in Blocks |-> FreshBlock]
    /\ ret = <<>>
    /\ rbuf = <<>>
    /\ detached = NoBlock
    /\ out_len = 0
    /\ kind = "none"
    /\ blob = <<>>
    /\ oob = FALSE
    /\ badfree = FALSE
    /\ nwrites = 0
    /\ xphase = "none"
    /\ img_exif = [k \in {} |-> 0]
    /\ img_xmp = [k \in {} |-> 0]
    /\ exif = [k \in {} |-> 0]
    /\ xmp = [k \in {} |-> 0]
    /\ xop = "none"
    /\ xargs = <<>>
    /\ xrc = 0
    /\ xstr = <<>>
    /\ out_set = FALSE
    /\ gps_added = FALSE
    /\ xbadfree = FALSE
    /\ vals = <<>>
    /\ copied_mime = [size |-> 0, written |-> 0]

\* Undefined behaviour kills the process inside a call: nothing of the call
\* is seen, and nothing runs afterwards.  o: an access outside its block;
\* b: a free of something that is not a live block of the stream.
Crashes(o, b) ==
    /\ phase' = "crashed"
    /\ oob' = (oob \/ o)
    /\ badfree' = (badfree \/ b)
    /\ UNCHANGED <<pc, wcount, wsrc, curr, buf, length, capacity, moved,
                   incr_count, heap, ret, rbuf, detached, out_len, kind,
                   blob, nwrites>>

(***************************************************************************)
(* Constructors.                                                           *)
(***************************************************************************)
\* The caller's span of n bytes.
SpanOf(n) == [i \in 1 .. n |-> i]

\* The block s_buf_stream_new stores in stream->buf: 0 is the caller's
\* buffer, 1 the copy it has just made.
SNewBuf == 0

\* buf_stream_new(buf, buf_len), through s_buf_stream_new: the BufStream is
\* malloc'ed and not cleared, so curr, moved and incr_count hold whatever
\* the allocation held (gc, gm, gi).
BufStreamNew(n, gc, gm, gi) ==
    /\ phase = "none"
    /\ UNCHANGED metaVars
    /\ phase' = "open"
    /\ kind' = "wrap"
    /\ blob' = SpanOf(n)
    /\ heap' = [heap EXCEPT
                  ![0] = [st |-> "live", owner |-> "caller", data |-> SpanOf(n)],
                  ![1] = [st |-> "live", owner |-> "stream", data |-> SpanOf(n)]]
    /\ buf' = SNewBuf
    /\ length' = n
    /\ capacity' = n
    /\ curr' = gc
    /\ moved' = gm
    /\ incr_count' = gi
    /\ UNCHANGED <<pc, wcount, wsrc, ret, rbuf, detached, out_len, oob,
                   badfree, nwrites>>

\* buf_stream_new_empty(initial_size): the BufStream is cleared by memset,
\* the storage is not.
BufStreamNewEmpty(n) ==
    /\ phase = "none"
    /\ UNCHANGED metaVars
    /\ phase' = "open"
    /\ kind' = "empty"
    /\ heap' = [heap EXCEPT
                  ![0] = [st |-> "live", owner |-> "stream", data |-> Garbage(n)]]
    /\ buf' = 0
    /\ capacity' = n
    /\ length' = 0
    /\ curr' = 0
    /\ moved' = 0
    /\ incr_count' = 0
    /\ UNCHANGED <<pc, wcount, wsrc, ret, rbuf, detached, out_len, blob, oob,
                   badfree, nwrites>>

(***************************************************************************)
(* Stream callbacks.                                                       *)
(***************************************************************************)
Callable == phase = "open" /\ pc = "idle"

\* buf_stream_length, buf_stream_position.
BufStreamLength == length
BufStreamPosition == curr

\* The cursor buf_stream_seek leaves.
SeekTarget(offset, origin) ==
    CASE origin = "Begin" -> offset
      [] origin = "Current" -> curr + offset
      [] origin = "End" -> curr - offset

BufStreamSeek(offset, origin) ==
    /\ Callable
    /\ UNCHANGED metaVars
    /\ SeekTarget(offset, origin) \in Cursors
    /\ curr' = SeekTarget(offset, origin)
    /\ ret' = <<>>
    /\ rbuf' = <<>>
    /\ UNCHANGED <<phase, pc, wcount, wsrc, buf, length, capacity, moved,
                   incr_count, heap, detached, out_len, kind, blob, oob,
                   badfree, nwrites>>

\* The EOF test with the cursor and the length compared as signed values.
AtEOFSigned == curr >= length

\* buf_stream_read's EOF test.
AtEOF == UGe(curr, length)

\* The value buf_stream_read returns at EOF.
EOFResult == 0

\* The number of bytes buf_stream_read copies when not at EOF.
Copying(count) ==
    LET remained == length - curr
    IN  IF ToInt32(remained) >= count THEN count ELSE ToInt32(remained)

BufStreamRead(count) ==
    /\ Callable
    /\ UNCHANGED metaVars
    /\ IF AtEOF
       THEN /\ ret' = <<EOFResult>>
            /\ rbuf' = <<>>
            /\ UNCHANGED <<phase, pc, wcount, wsrc, curr, buf, length,
                           capacity, moved, incr_count, heap, detached,
                           out_len, kind, blob, oob, badfree, nwrites>>
       ELSE LET n == Copying(count)
                d == heap[buf].data
                ub == n < 0 \/ (n > 0 /\ (curr < 0 \/ curr + n > Len(d)))
            IN  \/ /\ n >= 0
                   /\ rbuf' = [i \in 1 .. n |-> ByteAt(d, curr + i - 1)]
                   /\ curr' = curr + n
                   /\ ret' = <<n>>
                   /\ oob' = (oob \/ ub)
                   /\ UNCHANGED <<phase, pc, wcount, wsrc, buf, length,
                                  capacity, moved, incr_count, heap, detached,
                                  out_len, kind, blob, badfree, nwrites>>
                \/ /\ ub
                   /\ Crashes(TRUE, FALSE)

\* buf_stream_write's loop test: the count does not fit in what remains
\* after the cursor.
NeedsGrowth == UGt(wcount, capacity - curr)

\* buf_stream_write is entered with count bytes, all equal to v, to store;
\* budget: the number of calls followed.
WriteCall(count, v, budget) ==
    /\ Callable
    /\ UNCHANGED metaVars
    /\ nwrites < budget
    /\ pc' = "write"
    /\ wcount' = count
    /\ wsrc' = [i \in 1 .. count |-> v]
    /\ nwrites' = nwrites + 1
    /\ ret' = <<>>
    /\ rbuf' = <<>>
    /\ UNCHANGED <<phase, curr, buf, length, capacity, moved, incr_count,
                   heap, detached, out_len, kind, blob, oob, badfree>>

\* The content s_buf_stream_incr gives the new block of nc bytes: the first
\* len bytes of the old block, then zeros.
GrownData(old, len, nc) ==
    [i \in 1 .. nc |-> IF ULt(i - 1, len) THEN ByteAt(old, i - 1) ELSE 0]

\* s_buf_stream_incr frees the block it replaces.
IncrFreesOld == incr_count > 0

\* One pass of buf_stream_write's loop that calls s_buf_stream_incr.
WriteGrow ==
    /\ phase = "open"
    /\ UNCHANGED metaVars
    /\ pc = "write"
    /\ NeedsGrowth
    /\ CanAlloc(heap)
    /\ LET nc == GrownCapacity(capacity)
           nb == AllocId(heap)
           old == heap[buf].data
           ub == UGt(length, Len(old)) \/ UGt(length, nc)
           h1 == [heap EXCEPT ![nb] = [st |-> "live", owner |-> "stream",
                                       data |-> GrownData(old, length, nc)]]
           bad == IncrFreesOld /\ ~GoodFree(h1, buf)
       IN  \/ /\ heap' = IF IncrFreesOld THEN FreeBlock(h1, buf) ELSE h1
              /\ badfree' = (badfree \/ bad)
              /\ buf' = nb
              /\ capacity' = nc
              /\ incr_count' = Min(incr_count + 1, MaxIncrCount)
              /\ oob' = (oob \/ ub)
              /\ UNCHANGED <<phase, pc, wcount, wsrc, curr, length, moved,
                             ret, rbuf, detached, out_len, kind, blob,
                             nwrites>>
           \/ /\ ub \/ bad
              /\ Crashes(ub, bad)

\* The length buf_stream_write records.
WrittenLength == curr + wcount

\* The loop of buf_stream_write is left: the bytes are copied in, the length
\* and the cursor are set.
WriteCopy ==
    /\ phase = "open"
    /\ UNCHANGED metaVars
    /\ pc = "write"
    /\ ~NeedsGrowth
    /\ LET d == heap[buf].data
           ub == wcount > 0 /\ (curr < 0 \/ curr + wcount > Len(d))
       IN  \/ /\ heap' = [heap EXCEPT ![buf].data = Store(d, curr, wsrc)]
              /\ oob' = (oob \/ ub)
              /\ length' = WrittenLength
              /\ curr' = curr + wcount
              /\ pc' = "idle"
              /\ UNCHANGED <<phase, wcount, wsrc, buf, capacity, moved,
                             incr_count, ret, rbuf, detached, out_len, kind,
                             blob, badfree, nwrites>>
           \/ /\ ub
              /\ Crashes(TRUE, FALSE)

\* buf_stream_get_data: the storage and the length go to the caller.  It is
\* called once.
BufStreamGetData ==
    /\ Callable
    /\ UNCHANGED metaVars
    /\ detached = NoBlock
    /\ moved' = 1
    /\ out_len' = length
    /\ detached' = buf
    /\ ret' = <<>>
    /\ rbuf' = <<>>
    /\ UNCHANGED <<phase, pc, wcount, wsrc, curr, buf, length, capacity,
                   incr_count, heap, kind, blob, oob, badfree, nwrites>>

\* s_buf_stream_free without its test of the moved flag.
SFreeIgnoresMoved == buf # NoBlock /\ incr_count > 0

\* s_buf_stream_free frees the storage.
SFreeFreesBuf == buf # NoBlock /\ incr_count > 0 /\ moved # 1

\* buf_stream_free(&cb): nothing when *cb is NULL; otherwise the storage is
\* released as s_buf_stream_free decides and *cb becomes NULL.
BufStreamFree ==
    /\ pc = "idle"
    /\ UNCHANGED metaVars
    /\ phase # "crashed"
    /\ IF phase = "open"
       THEN LET bad == SFreeFreesBuf /\ ~GoodFree(heap, buf)
            IN  \/ /\ heap' = IF SFreeFreesBuf THEN FreeBlock(heap, buf)
                                               ELSE heap
                   /\ badfree' = (badfree \/ bad)
                   /\ phase' = "freed"
                   /\ ret' = <<>>
                   /\ rbuf' = <<>>
                   /\ UNCHANGED <<pc, wcount, wsrc, curr, buf, length,
                                  capacity, moved, incr_count, detached,
                                  out_len, kind, blob, oob, nwrites>>
                \/ /\ bad
                   /\ Crashes(FALSE, TRUE)
       ELSE UNCHANGED vars

\* The program followed through budget calls of buf_stream_write, when the
\* uncleared BufStream of buf_stream_new holds a cursor of gcs and a
\* <<moved, incr_count>> of gs.
NextWithin(budget, gcs, gs) ==
    \/ \E n \in SpanSizes, gc \in gcs, g \in gs :
           BufStreamNew(n, gc, g[1], g[2])
    \/ \E n \in InitSizes : BufStreamNewEmpty(n)
    \/ \E off \in Offsets, o \in Origins : BufStreamSeek(off, o)
    \/ \E c \in Counts : BufStreamRead(c)
    \/ \E c \in 1 .. MaxCount, v \in FillBytes : WriteCall(c, v, budget)
    \/ WriteGrow
    \/ WriteCopy
    \/ BufStreamGetData
    \/ BufStreamFree

Next == NextWithin(MaxWrites, Cursors, Uncleared)

Spec == Init /\ [][Next]_vars

\* The behaviours of Spec in which the memory malloc hands to
\* s_buf_stream_new happens to hold zeros.
NextZeroed == NextWithin(MaxWrites, {0}, {<<0, 0>>})
SpecZeroed == Init /\ [][NextZeroed]_vars

\* The same, followed through one more buf_stream_write call.
NextDeep == NextWithin(MaxWrites + 1, {0}, {<<0, 0>>})
SpecDeep == Init /\ [][NextDeep]_vars

\* A call that has started runs on: the loop of buf_stream_write takes its
\* next pass, or leaves.
SpecLive == SpecZeroed /\ WF_vars(WriteGrow) /\ WF_vars(WriteCopy)

(***************************************************************************)
(* Metadata: keys, values and dictionaries.                                *)
(***************************************************************************)
\* Coordinates are the doubles n / Scale, Scale = 2^FracBits: they, and
\* every product the encoder forms from them, are exact in a double, so the
\* integer arithmetic below is the one the code performs.
FracBits == 3
Scale == 2 ^ FracBits
\* Largest magnitude of a coordinate, in whole degrees or metres.
MaxCoord == 1
Coords == (0 - MaxCoord * Scale) .. (MaxCoord * Scale)
\* The altitudes followed.
Alts == {0 - 1, 0, 1}
\* The <<latitude, longitude, altitude>> followed: the latitude and the
\* longitude each run over all of Coords, beside an opposite or a zero other
\* one.
GpsInputs ==
    {p \in Coords \X Coords \X Alts :
        \/ p[1] = 0 - p[2]
        \/ p[1] = 0 /\ p[3] = 0
        \/ p[2] = 0 /\ p[3] = 0}

\* An EXIF key "Exif.<group>.<name>" and an XMP key "Xmp.<prefix>.<name>";
\* the name of an XMP key is spelled out, since the code looks at its first
\* characters.
ExifKey(group, name) == [fam |-> "Exif", group |-> group, name |-> name]
XmpKey(prefix, name) == [fam |-> "Xmp", group |-> prefix, name |-> name]

EXIF_KEY_GPS_VERSION == ExifKey("GPSInfo", "GPSVersionID")
EXIF_KEY_GPS_FORMAT == ExifKey("GPSInfo", "GPSMapDatum")
EXIF_KEY_GPS_ALT_REF == ExifKey("GPSInfo", "GPSAltitudeRef")
EXIF_KEY_GPS_ALT == ExifKey("GPSInfo", "GPSAltitude")
EXIF_KEY_GPS_LAT_REF == ExifKey("GPSInfo", "GPSLatitudeRef")
EXIF_KEY_GPS_LAT == ExifKey("GPSInfo", "GPSLatitude")
EXIF_KEY_GPS_LON_REF == ExifKey("GPSInfo", "GPSLongitudeRef")
EXIF_KEY_GPS_LON == ExifKey("GPSInfo", "GPSLongitude")

\* Other keys an image may hold or a caller may ask for: a GPSInfo tag the
\* encoder does not write, a tag of another group, and a string that is not
\* the name of any EXIF tag (the codec throws on it).
ExifGpsSpeed == ExifKey("GPSInfo", "GPSSpeed")
ExifMake == ExifKey("Image", "Make")
ExifModel == ExifKey("Image", "Model")
ExifBogus == ExifKey("NoSuchGroup", "NoSuchTag")
\* The EXIF keys looked up.
ExifKeys == {EXIF_KEY_GPS_VERSION, ExifMake, ExifModel, ExifBogus}
ValidExifKey(k) == k.group \in {"GPSInfo", "Image"}

XmpRating == XmpKey("xmp", <<"R", "a", "t", "i", "n", "g">>)
XmpLabel == XmpKey("xmp", <<"L", "a", "b", "e", "l">>)
XmpGpsLat == XmpKey("exif", <<"G", "P", "S", "L", "a", "t">>)
XmpGp == XmpKey("exif", <<"G", "P">>)
\* The XMP keys looked up.
XmpKeys == {XmpRating, XmpLabel}

\* Values: a string, a degrees/minutes/seconds triple of rationals, one
\* rational, and the state of a datum that has a key and no value.
Str(s) == <<"str", s>>
Dms(d, dd, m, md, sc, sd) == <<"dms", d, dd, m, md, sc, sd>>
Rat(n, d) == <<"rat", n, d>>
NoValue == <<"none">>

\* Exifdatum::toString, Xmpdatum::toString: the empty string for a datum
\* without a value.
DatumToString(v) == IF v = NoValue THEN Str("") ELSE v

\* A dictionary is a function from the keys it holds to their values.
EmptyDict == [k \in {} |-> NoValue]
\* data[key] = value: the datum is added when the key is not there.
Put(d, k, v) == [x \in (DOMAIN d) \cup {k} |-> IF x = k THEN v ELSE d[x]]
\* The erase loop: the data whose keys are in gone are removed.
Erase(d, gone) == [x \in (DOMAIN d) \ gone |-> d[x]]

\* What the images opened hold: no tag; tags but none of GPS; tags with
\* GPS tags among them.
ExifPlain == Put(EmptyDict, ExifMake, Str("ACME"))
ExifWithGps ==
    Put(Put(Put(Put(EmptyDict, ExifMake, Str("")),
                EXIF_KEY_GPS_VERSION, Str("2 2 0 0")),
            ExifGpsSpeed, Rat(5, 1)),
        EXIF_KEY_GPS_FORMAT, Str("TOKYO"))
XmpPlain == Put(EmptyDict, XmpRating, Str("5"))
XmpWithGps ==
    Put(Put(Put(EmptyDict, XmpRating, Str("")), XmpGpsLat, Str("1,2N")),
        XmpGp, Str("x"))
\* The images opened, as <<EXIF tags, XMP tags>>.
Images ==
    {<<EmptyDict, EmptyDict>>, <<ExifPlain, XmpPlain>>,
     <<ExifWithGps, XmpWithGps>>, <<EmptyDict, XmpWithGps>>,
     <<ExifWithGps, EmptyDict>>}

(***************************************************************************)
(* The GPS encoder (s_try_update_gps_info).                                *)
(***************************************************************************)
\* fabs left out.
FabsOmitted(x) == x

\* fabs.
Fabs(x) == IF x < 0 THEN 0 - x ELSE x

\* const int denom.
Denom == 1000000

\* The latitude reference with the comparison <= 0 in place of < 0.
LatRefOfLe(lat) == IF lat <= 0 THEN "S" ELSE "N"

\* The reference tags written for an altitude, a latitude, a longitude.
AltRefOf(alt) == IF alt < 0 THEN "1" ELSE "0"
LatRefOf(lat) == IF lat < 0 THEN "S" ELSE "N"
LonRefOf(lon) == IF lon < 0 THEN "W" ELSE "E"

\* The value written for the coordinate n / Scale: modf splits
\* fabs(n / Scale) into whole and remainder, modf splits remainder * 60
\* again, and what is left is scaled by 60 * denom and floored;
\* snprintf("%d/1 %d/1 %d/%d").
DmsOf(n) ==
    LET a == Fabs(n)
        whole == a \div Scale
        remainder == a % Scale
        m60 == Fabs(remainder * 60)
        whole2 == m60 \div Scale
        remainder2 == m60 % Scale
        deg == whole
        min == whole2
        sec == (remainder2 * 60 * Denom) \div Scale
    IN  Dms(deg, 1, min, 1, sec, Denom)

\* The rational written for the altitude n / Scale.
AltOf(n) == Rat(Fabs(n), Scale)

\* findKey(EXIF_KEY_GPS_VERSION) == end().
VersionAbsent(d) == EXIF_KEY_GPS_VERSION \notin DOMAIN d

\* The assignments s_try_update_gps_info makes to dictionary d, in order.
GpsPuts(d, lat, lon, alt) ==
    (IF VersionAbsent(d)
     THEN << <<EXIF_KEY_GPS_VERSION, Str("2 0 0 0")>> >>
     ELSE << >>)
    \o << <<EXIF_KEY_GPS_FORMAT, Str("WGS-84")>>,
          <<EXIF_KEY_GPS_ALT_REF, Str(AltRefOf(alt))>>,
          <<EXIF_KEY_GPS_ALT, AltOf(alt)>>,
          <<EXIF_KEY_GPS_LAT_REF, Str(LatRefOf(lat))>>,
          <<EXIF_KEY_GPS_LAT, DmsOf(lat)>>,
          <<EXIF_KEY_GPS_LON_REF, Str(LonRefOf(lon))>>,
          <<EXIF_KEY_GPS_LON, DmsOf(lon)>> >>

\* Dictionary d after the first j assignments of puts.
RECURSIVE ApplyPuts(_, _, _)
ApplyPuts(d, puts, j) ==
    IF j = 0 THEN d
    ELSE Put(ApplyPuts(d, puts, j - 1), puts[j][1], puts[j][2])

\* s_try_update_gps_info run to its end on dictionary d.
STryUpdateGpsInfo(d, lat, lon, alt) ==
    ApplyPuts(d, GpsPuts(d, lat, lon, alt), Len(GpsPuts(d, lat, lon, alt)))

(***************************************************************************)
(* Deleting the GPS tags (s_try_destroy_gps_info).                         *)
(***************************************************************************)
\* The EXIF erase loop: every datum of group GPSInfo goes.
DestroyExif(d) == Erase(d, {k \in DOMAIN d : k.group = "GPSInfo"})

\* tagName().compare(0, 3, "GPS") == 0.
NamedGps(k) ==
    Len(k.name) >= 3 /\ SubSeq(k.name, 1, 3) = <<"G", "P", "S">>

\* The XMP erase loop that removes nothing.
DestroyXmpKeepsAll(d) == d

\* The XMP erase loop: every datum whose tag name starts with GPS goes.
DestroyXmp(d) == Erase(d, {k \in DOMAIN d : NamedGps(k)})

(***************************************************************************)
(* The metadata session (exif.cpp).                                        *)
(***************************************************************************)
\* No block for a mime type: nothing allocated, nothing stored.
NoCopy == [size |-> 0, written |-> 0]

\* What the latest call is recorded as; it returned no array of strings.
Returns(op, args, rc, str, oset, bf) ==
    /\ xop' = op
    /\ xargs' = args
    /\ xrc' = rc
    /\ xstr' = str
    /\ out_set' = oset
    /\ xbadfree' = bf
    /\ vals' = <<>>
    /\ copied_mime' = NoCopy

\* self, self->priv and the image are all there.
HasImage == xphase = "open"

\* exif_metadata_new, then exif_metadata_open or exif_metadata_open_blob on
\* an image that holds the tags ie and ix, or on something the codec cannot
\* open (ok = FALSE).  Opening reads no metadata.
ExifMetadataOpen(ie, ix, ok) ==
    /\ xphase = "none"
    /\ UNCHANGED <<streamVars, gps_added>>
    /\ IF ok
       THEN /\ xphase' = "open"
            /\ img_exif' = ie
            /\ img_xmp' = ix
            /\ exif' = EmptyDict
            /\ xmp' = EmptyDict
            /\ Returns("open", <<>>, 0, <<>>, FALSE, FALSE)
       ELSE /\ Returns("open", <<>>, 0 - 1, <<>>, FALSE, FALSE)
            /\ UNCHANGED <<xphase, img_exif, img_xmp, exif, xmp>>

\* exif_get_tag_string(self, tag).  readMetadata loads the image's tags
\* (readok = FALSE: it throws, having cleared what was in memory, and so
\* does the making of a key from a string that names no tag; catch (...)
\* turns both into NULL).  data[tag] adds a datum without a value when the
\* key is not in the dictionary.
ExifGetTagString(k, readok) ==
    /\ xphase # "crashed"
    /\ UNCHANGED <<streamVars, xphase, img_exif, img_xmp, gps_added>>
    /\ IF ~HasImage
       THEN /\ readok
            /\ Returns("get_tag", <<k>>, 0, <<>>, FALSE, FALSE)
            /\ UNCHANGED <<exif, xmp>>
       ELSE IF ~readok
       THEN /\ Returns("get_tag", <<k>>, 0, <<>>, FALSE, FALSE)
            /\ exif' = EmptyDict
            /\ xmp' = EmptyDict
       ELSE IF k.fam = "Xmp"
       THEN /\ exif' = img_exif
            /\ IF img_xmp = EmptyDict
               THEN /\ xmp' = img_xmp
                    /\ Returns("get_tag", <<k>>, 0, <<>>, FALSE, FALSE)
               ELSE /\ xmp' = IF k \in DOMAIN img_xmp THEN img_xmp
                                                     ELSE Put(img_xmp, k, NoValue)
                    /\ Returns("get_tag", <<k>>, 0,
                               <<DatumToString(xmp'[k])>>, FALSE, FALSE)
       ELSE /\ xmp' = img_xmp
            /\ IF img_exif = EmptyDict \/ ~ValidExifKey(k)
               THEN /\ exif' = img_exif
                    /\ Returns("get_tag", <<k>>, 0, <<>>, FALSE, FALSE)
               ELSE /\ exif' = IF k \in DOMAIN img_exif THEN img_exif
                                                       ELSE Put(img_exif, k, NoValue)
                    /\ Returns("get_tag", <<k>>, 0,
                               <<DatumToString(exif'[k])>>, FALSE, FALSE)

\* How a call of exif_metadata_add_gps_info on an image can go.
AddGpsOutcomes ==
    {"ok", "read_throws", "destroy_exif_fails", "destroy_xmp_fails",
     "update_fails"}

\* exif_metadata_add_gps_info(self, lat, lon, alt): readMetadata,
\* s_try_destroy_gps_info, s_try_update_gps_info.  An exception of
\* readMetadata is caught by nobody and ends the process; update_fails: the
\* j + 1st assignment of s_try_update_gps_info throws.  One call is followed
\* on an open image; a second one would start from readMetadata as this one
\* does.
ExifMetadataAddGpsInfo(lat, lon, alt, out, j) ==
    /\ xphase # "crashed"
    /\ ~gps_added
    /\ gps_added' = HasImage
    /\ UNCHANGED <<streamVars, img_exif, img_xmp>>
    /\ out = "update_fails" \/ j = 0
    /\ IF ~HasImage
       THEN /\ out = "ok"
            /\ Returns("add_gps", <<lat, lon, alt, out>>, 0 - 1, <<>>,
                            FALSE, FALSE)
            /\ UNCHANGED <<xphase, exif, xmp>>
       ELSE CASE out = "read_throws" ->
                 /\ xphase' = "crashed"
                 /\ Returns("add_gps", <<lat, lon, alt, out>>, 0, <<>>,
                            FALSE, FALSE)
                 /\ UNCHANGED <<exif, xmp>>
              [] out = "destroy_exif_fails" ->
                 /\ exif' = img_exif
                 /\ xmp' = img_xmp
                 /\ Returns("add_gps", <<lat, lon, alt, out>>, 0 - 1, <<>>,
                            FALSE, FALSE)
                 /\ UNCHANGED xphase
              [] out = "destroy_xmp_fails" ->
                 /\ exif' = DestroyExif(img_exif)
                 /\ xmp' = img_xmp
                 /\ Returns("add_gps", <<lat, lon, alt, out>>, 0 - 1, <<>>,
                            FALSE, FALSE)
                 /\ UNCHANGED xphase
              [] out = "update_fails" ->
                 LET d == DestroyExif(img_exif)
                 IN  /\ j < Len(GpsPuts(d, lat, lon, alt))
                     /\ exif' = ApplyPuts(d, GpsPuts(d, lat, lon, alt), j)
                     /\ xmp' = DestroyXmp(img_xmp)
                     /\ Returns("add_gps", <<lat, lon, alt, out>>, 0 - 1, <<>>,
                                FALSE, FALSE)
                     /\ UNCHANGED xphase
              [] out = "ok" ->
                 /\ exif' = STryUpdateGpsInfo(DestroyExif(img_exif), lat, lon, alt)
                 /\ xmp' = DestroyXmp(img_xmp)
                 /\ Returns("add_gps", <<lat, lon, alt, out>>, 0, <<>>,
                            FALSE, FALSE)
                 /\ UNCHANGED xphase

\* How a call of exif_metadata_save_blob on an image can go: the new blob is
\* produced; the codec leaves an empty block; the codec throws and the
\* free(out_blob) of the handler returns; the codec throws and that free
\* ends the process.
SaveOutcomes == {"ok", "empty", "throws", "throws_free_aborts"}

\* exif_metadata_save_blob(self, blob, blob_len, out_blob), out_blob being
\* the address of the caller's pointer variable; n: the size of the block
\* the codec has written.  The handler of Exiv2::Error frees out_blob
\* itself, which no malloc returned.
ExifMetadataSaveBlob(out, n) ==
    /\ xphase # "crashed"
    /\ UNCHANGED <<streamVars, img_exif, img_xmp, exif, xmp, gps_added>>
    /\ out = "ok" \/ n = 1
    /\ IF ~HasImage
       THEN /\ out = "empty"
            /\ Returns("save_blob", <<out, n>>, 0, <<>>, FALSE, FALSE)
            /\ UNCHANGED xphase
       ELSE CASE out = "ok" ->
                 /\ Returns("save_blob", <<out, n>>, n, <<>>, TRUE, FALSE)
                 /\ UNCHANGED xphase
              [] out = "empty" ->
                 /\ Returns("save_blob", <<out, n>>, 0, <<>>, FALSE, FALSE)
                 /\ UNCHANGED xphase
              [] out = "throws" ->
                 /\ Returns("save_blob", <<out, n>>, 0, <<>>, FALSE, TRUE)
                 /\ UNCHANGED xphase
              [] out = "throws_free_aborts" ->
                 /\ Returns("save_blob", <<out, n>>, 0, <<>>, FALSE, TRUE)
                 /\ xphase' = "crashed"

\* exif_metadata_destroy(&self): the image and the session go, *self is
\* NULL again.
ExifMetadataDestroy ==
    /\ xphase = "open"
    /\ UNCHANGED streamVars
    /\ xphase' = "none"
    /\ gps_added' = FALSE
    /\ img_exif' = EmptyDict
    /\ img_xmp' = EmptyDict
    /\ exif' = EmptyDict
    /\ xmp' = EmptyDict
    /\ Returns("destroy", <<>>, 0, <<>>, FALSE, FALSE)

(***************************************************************************)
(* The native entry points (exif.c, add_gps.c).                            *)
(***************************************************************************)
\* How a call of native_add_gps_info_to_blob (or native_add_gps_info, which
\* is the same code) can go: which gexiv2 call reports an error, if any.
NativeAddOutcomes == {"ok", "open_fails", "set_fails", "save_fails"}

\* native_add_gps_info_to_blob(blob, blob_len, out_blob, lat, lon, alt); n:
\* the length of the stream when gexiv2_metadata_save_stream has written
\* it.  The stream is the call's own, made after the first two steps and
\* freed before the return.
NativeAddGpsInfoToBlob(out, n) ==
    /\ xphase # "crashed"
    /\ UNCHANGED <<streamVars, xphase, img_exif, img_xmp, exif, xmp, gps_added>>
    /\ out = "ok" \/ n = 1
    /\ IF out = "ok"
       THEN Returns("native_add_gps", <<out>>, n, <<>>, TRUE, FALSE)
       ELSE Returns("native_add_gps", <<out>>, 0, <<>>, FALSE, FALSE)

\* The characters of the texts followed.
DigitChars == <<"0", "1", "2", "3", "4", "5", "6", "7", "8", "9">>
IsDigit(c) == \E i \in 1 .. Len(DigitChars) : DigitChars[i] = c
DigitValue(c) == (CHOOSE i \in 1 .. Len(DigitChars) : DigitChars[i] = c) - 1

\* atoi: white space is skipped, a sign is taken, then digits up to the
\* first character that is none; no digit at all gives 0.
RECURSIVE SkipSpace(_, _)
SkipSpace(t, i) ==
    IF i <= Len(t) /\ t[i] = " " THEN SkipSpace(t, i + 1) ELSE i

RECURSIVE AtoiDigits(_, _, _)
AtoiDigits(t, i, acc) ==
    IF i <= Len(t) /\ IsDigit(t[i])
    THEN AtoiDigits(t, i + 1, acc * 10 + DigitValue(t[i]))
    ELSE acc

Atoi(t) ==
    LET i == SkipSpace(t, 1)
        signed == i <= Len(t) /\ t[i] \in {"-", "+"}
        v == AtoiDigits(t, IF signed THEN i + 1 ELSE i, 0)
    IN  IF signed /\ t[i] = "-" THEN 0 - v ELSE v

\* The values of Xmp.xmp.Rating followed: the texts of at most MaxText
\* characters over TextChars.
MaxText == 3
TextChars == {"0", "1", "5", "-", " ", "x"}
RatingTexts == UNION {[1 .. n -> TextChars] : n \in 0 .. MaxText}

\* What native_get_rating_from_path finds: the file does not open; the tag
\* is not there (gexiv2 returns NULL); gexiv2 reports an error; the tag has
\* a value.
RatingOutcomes == {"open_fails", "absent", "tag_error", "value"}

\* int result = -1, left as it is unless a rating string came back.
RatingDefault == 0 - 1

\* native_get_rating_from_path(path), the file's rating tag holding text t.
NativeGetRatingFromPath(out, t) ==
    /\ xphase # "crashed"
    /\ UNCHANGED <<streamVars, xphase, img_exif, img_xmp, exif, xmp, gps_added>>
    /\ out = "value" \/ t = << >>
    /\ Returns("get_rating", <<out, t>>,
               IF out = "value" THEN Atoi(t) ELSE RatingDefault,
               <<>>, FALSE, FALSE)

\* The mime types followed: none (gexiv2_metadata_get_mime_type returns
\* NULL, <<>>) or <<s>>, s a string of at most MaxMime characters.
MaxMime == 2
MimeChars == {"i", "/"}
Mimes == {<<>>} \cup {<<s>> : s \in UNION {[1 .. n -> MimeChars] :
                                             n \in 0 .. MaxMime}}

\* The tags asked for: tag_len of them, at most MaxTags, each one held by
\* the file (TRUE) or not.
MaxTags == 2
TagsFound == UNION {[1 .. n -> BOOLEAN] : n \in 0 .. MaxTags}

\* The string gexiv2 returns for a tag the file holds.
TagValue == <<"v">>

\* How a call of native_get_tags_from_path can go: the file does not open;
\* every tag is read; gexiv2 reports an error at a tag; the byte stored
\* past the end of copied_mime ends the process.
TagsOutcomes == {"open_fails", "ok", "tag_error", "overrun_aborts"}

\* copied_mime = malloc(strlen(mime_type)); strncpy stores strlen(mime_type)
\* bytes and copied_mime[strlen(mime_type)] = '\0' one more.
CopiedMime(mime) ==
    IF mime = <<>> THEN NoCopy
    ELSE [size |-> Len(mime[1]), written |-> Len(mime[1]) + 1]

\* The array after the loop over the tags has stopped at tag e (0: it ran
\* to its end): tag_len + 1 slots cleared by memset, the last one the copy
\* of the mime type, slot i the value of tag i where the file holds it.
ValsOf(mime, found, e) ==
    [i \in 1 .. Len(found) + 1 |->
        IF i = Len(found) + 1 THEN mime
        ELSE IF (e = 0 \/ i < e) /\ found[i] THEN <<TagValue>>
        ELSE <<>>]

\* native_get_tags_from_path(path, tags, tag_len), the file having mime type
\* mime and holding the tags that found marks.  Storing outside copied_mime
\* is undefined: the call goes on with the heap damaged, or the process
\* ends there.
NativeGetTagsFromPath(out, mime, found, e) ==
    /\ xphase # "crashed"
    /\ UNCHANGED <<streamVars, img_exif, img_xmp, exif, xmp, gps_added>>
    /\ xop' = "get_tags"
    /\ xargs' = <<out, mime, Len(found)>>
    /\ xrc' = 0
    /\ xstr' = <<>>
    /\ out_set' = FALSE
    /\ xbadfree' = FALSE
    /\ out = "tag_error" <=> e # 0
    /\ e <= Len(found)
    /\ CASE out = "open_fails" ->
             /\ mime = <<>>
             /\ vals' = <<>>
             /\ copied_mime' = NoCopy
             /\ UNCHANGED xphase
          [] out = "overrun_aborts" ->
             /\ CopiedMime(mime).written > CopiedMime(mime).size
             /\ found = <<>>
             /\ vals' = <<>>
             /\ copied_mime' = CopiedMime(mime)
             /\ xphase' = "crashed"
          [] OTHER ->
             /\ vals' = ValsOf(mime, found, e)
             /\ copied_mime' = CopiedMime(mime)
             /\ UNCHANGED xphase

\* The metadata session.
NextMeta ==
    \/ \E im \in Images, ok \in BOOLEAN : ExifMetadataOpen(im[1], im[2], ok)
    \/ \E k \in ExifKeys, readok \in BOOLEAN : ExifGetTagString(k, readok)
    \/ \E k \in XmpKeys, readok \in BOOLEAN : ExifGetTagString(k, readok)
    \/ \E p \in GpsInputs, out \in AddGpsOutcomes, j \in 0 .. 7 :
           ExifMetadataAddGpsInfo(p[1], p[2], p[3], out, j)
    \/ \E out \in SaveOutcomes, n \in {1, MaxSpan} :
           ExifMetadataSaveBlob(out, n)
    \/ ExifMetadataDestroy

SpecMeta == Init /\ [][NextMeta]_vars

\* The native entry points; each call is complete in itself.
NextNative ==
    \/ \E out \in NativeAddOutcomes, n \in 1 .. MaxSpan :
           NativeAddGpsInfoToBlob(out, n)
    \/ \E out \in RatingOutcomes, t \in RatingTexts :
           NativeGetRatingFromPath(out, t)
    \/ \E out \in TagsOutcomes, mime \in Mimes, found \in TagsFound,
          e \in 0 .. MaxTags :
           NativeGetTagsFromPath(out, mime, found, e)

SpecNative == Init /\ [][NextNative]_vars

(***************************************************************************)
(* The claims.                                                             *)
(***************************************************************************)
\* The fields of the BufStream and the heap it points into.
streamState == <<curr, buf, length, capacity, moved, incr_count, heap>>

\* C1: every buf_stream_write of count bytes at cursor c leaves
\* length = max(old length, c + count); a write inside the existing bytes
\* does not shrink the length.
C1_WriteLengthIsMax ==
    [][(WriteCopy /\ pc' = "idle") =>
          length' = (IF ULt(length, curr + wcount) THEN curr + wcount
                     ELSE length)]_vars

\* C2: buf_stream_seek sets the cursor from the origin without clamping
\* (Begin: offset; Current: old cursor + offset; End: length - offset),
\* whatever the cursor was, and changes nothing but the cursor.
C2_SeekSetsCursorFromOrigin ==
    [][\A off \in Offsets, o \in Origins :
          BufStreamSeek(off, o) =>
              /\ curr' = (CASE o = "Begin" -> off
                            [] o = "Current" -> curr + off
                            [] o = "End" -> length - off)
              /\ UNCHANGED <<buf, length, capacity, moved, incr_count, heap>>]_vars

\* C3: length <= capacity in every reachable state of a stream.
C3_LengthWithinCapacity ==
    phase = "open" => ~UGt(length, capacity)

\* C4: a write never stores bytes outside the allocated storage: when the
\* bytes are copied, cursor + count <= capacity, and the capacity is all
\* allocated.
C4_WriteStaysInStorage ==
    [][WriteCopy =>
          /\ ~UGt(curr + wcount, capacity)
          /\ curr >= 0
          /\ curr + wcount <= Len(heap[buf].data)]_vars

\* C5: with cursor < length and count >= 0, buf_stream_read copies exactly
\* n = min(count, length - cursor) bytes, the stored bytes at
\* [cursor, cursor + n), returns n, advances the cursor by n and leaves the
\* length, the capacity and the stored bytes as they were.
C5_ReadCopiesStoredBytes ==
    [][\A c \in Counts :
          (BufStreamRead(c) /\ ULt(curr, length)) =>
              LET n == IF ULt(length - curr, c) THEN length - curr ELSE c
              IN  /\ ret' = <<n>>
                  /\ Len(rbuf') = n
                  /\ \A i \in 1 .. n :
                         /\ curr + i \in 1 .. Len(heap[buf].data)
                         /\ rbuf'[i] = heap[buf].data[curr + i]
                  /\ curr' = curr + n
                  /\ UNCHANGED <<buf, length, capacity, heap>>]_vars

\* C6: a read issued with cursor >= length returns 0 and leaves the cursor
\* and the rest of the stream as they were, so that the next read is at EOF
\* again.
C6_ReadAtEOF ==
    [][\A c \in Counts :
          (BufStreamRead(c) /\ UGe(curr, length)) =>
              /\ ret' = <<0>>
              /\ rbuf' = <<>>
              /\ UNCHANGED streamState
              /\ UGe(curr', length')]_vars

\* C6, reached: the latest call was a read that returned 0 with the cursor
\* at or past the end of a stream that holds bytes.
C6_Witness ==
    /\ phase = "open"
    /\ ret = <<0>>
    /\ UGe(curr, length)
    /\ length > 0

\* C7: buf_stream_new gives the stream a private copy: the caller's buffer
\* keeps its bytes whatever is written to the stream, and the storage
\* buf_stream_get_data returns is never the caller's buffer.
C7_WrapMakesPrivateCopy ==
    kind = "wrap" =>
        /\ heap[0] = [st |-> "live", owner |-> "caller", data |-> blob]
        /\ detached # 0

\* C8: buf_stream_get_data returns the storage and the current length and
\* marks the stream moved-from, the mark stays, and a later buf_stream_free
\* does not free the returned storage.
C8_FreeSparesDetached ==
    [][/\ BufStreamGetData =>
              (moved' = 1 /\ detached' = buf /\ out_len' = length)
       /\ detached' # NoBlock => moved' = 1
       /\ (BufStreamFree /\ detached # NoBlock) =>
              heap'[detached] = heap[detached]]_vars

\* C8, reached: the stream was freed after a write that grew it and a
\* detach, and the returned storage, which s_buf_stream_free would have
\* freed but for the mark, is still allocated.
C8_Witness ==
    /\ phase = "freed"
    /\ nwrites > 0
    /\ incr_count > 0
    /\ detached # NoBlock
    /\ detached = buf
    /\ heap[detached].st = "live"
    /\ heap[detached].owner = "stream"
    /\ out_len = length

\* C9: a growth step keeps every byte of [0, length), zero-fills the region
\* it adds and changes neither the cursor nor the length.
C9_GrowthPreservesContent ==
    [][WriteGrow =>
          /\ \A i \in 0 .. (length - 1) :
                 /\ i < Len(heap[buf].data)
                 /\ i < Len(heap'[buf'].data)
                 /\ heap'[buf'].data[i + 1] = heap[buf].data[i + 1]
          /\ \A i \in capacity .. (capacity' - 1) :
                 /\ i < Len(heap'[buf'].data)
                 /\ heap'[buf'].data[i + 1] = 0
          /\ curr' = curr
          /\ length' = length]_vars

\* C10: every buf_stream_write call terminates, for every initial capacity
\* and every count > 0: once entered, the call returns (or the process has
\* died in it of an access outside the storage, which is C4's matter).
C10_WriteTerminates ==
    (pc = "write") ~> (pc = "idle" \/ phase = "crashed")

\* The latest call was an exif_metadata_add_gps_info that returned 0 (a
\* call that readMetadata ended has returned nothing); its arguments are
\* xargs.
GpsAdded == xop = "add_gps" /\ xrc = 0 /\ xphase = "open"

\* C11: the GPS tag set written has altitude reference "1" (below sea
\* level) iff alt < 0 and "0" otherwise, latitude reference "S" iff lat < 0
\* and "N" otherwise, longitude reference "W" iff lon < 0 and "E" otherwise;
\* 0 gives "0", "N", "E".
C11_ReferenceTags ==
    GpsAdded =>
        LET lat == xargs[1]
            lon == xargs[2]
            alt == xargs[3]
        IN  /\ (exif[EXIF_KEY_GPS_ALT_REF] = Str("1")) <=> (alt < 0)
            /\ (exif[EXIF_KEY_GPS_ALT_REF] = Str("0")) <=> (alt >= 0)
            /\ (exif[EXIF_KEY_GPS_LAT_REF] = Str("S")) <=> (lat < 0)
            /\ (exif[EXIF_KEY_GPS_LAT_REF] = Str("N")) <=> (lat >= 0)
            /\ (exif[EXIF_KEY_GPS_LON_REF] = Str("W")) <=> (lon < 0)
            /\ (exif[EXIF_KEY_GPS_LON_REF] = Str("E")) <=> (lon >= 0)

\* C11, reached: the tags written for latitude 0, a western longitude and
\* altitude 0.
C11_Witness ==
    /\ GpsAdded
    /\ xargs[1] = 0
    /\ xargs[2] < 0
    /\ xargs[3] = 0
    /\ exif[EXIF_KEY_GPS_LAT_REF] = Str("N")
    /\ exif[EXIF_KEY_GPS_LON_REF] = Str("W")
    /\ exif[EXIF_KEY_GPS_ALT_REF] = Str("0")

\* C12: when a step of GPS embedding fails (opening the input, setting the
\* GPS info, saving), the operation returns length 0 and hands no buffer to
\* its caller: the call returns, and the output pointer is not assigned.
C12_FailureHandsNothing ==
    /\ (xop = "native_add_gps" /\ xargs[1] # "ok") =>
           (xrc = 0 /\ ~out_set)
    /\ (xop = "save_blob" /\ xargs[1] # "ok") =>
           (xrc = 0 /\ ~out_set /\ xphase # "crashed")

\* A text that is an integer in decimal: an optional sign, then digits only
\* and at least one.
DecimalBody(t) == IF Len(t) > 0 /\ t[1] \in {"-", "+"} THEN Tail(t) ELSE t
Parsable(t) ==
    /\ Len(DecimalBody(t)) > 0
    /\ \A i \in 1 .. Len(DecimalBody(t)) : IsDigit(DecimalBody(t)[i])

\* The number a string of digits spells.
RECURSIVE DigitsValue(_)
DigitsValue(b) ==
    IF Len(b) = 0 THEN 0
    ELSE DigitsValue(SubSeq(b, 1, Len(b) - 1)) * 10 + DigitValue(b[Len(b)])

\* C13: get_rating returns -1 when the file cannot be opened, when the tag
\* Xmp.xmp.Rating is absent and when its value is not parsable as an
\* integer; otherwise it returns the parsed integer.
C13_RatingOrMinusOne ==
    xop = "get_rating" =>
        LET out == xargs[1]
            t == xargs[2]
        IN  xrc = IF out # "value" \/ ~Parsable(t) THEN 0 - 1
                  ELSE IF t[1] = "-" THEN 0 - DigitsValue(DecimalBody(t))
                  ELSE DigitsValue(DecimalBody(t))

\* C14: looking up a key that the metadata does not hold returns NULL, never
\* an empty string, for XMP and for EXIF keys, whether or not the dictionary
\* holds other tags; a tag that is there with an empty value returns the
\* empty string.
C14_AbsentIsNull ==
    (xop = "get_tag" /\ HasImage) =>
        LET k == xargs[1]
            d == IF k.fam = "Xmp" THEN img_xmp ELSE img_exif
            m == IF k.fam = "Xmp" THEN xmp ELSE exif
        IN  /\ k \notin DOMAIN d => xstr = << >>
            /\ (k \in DOMAIN d /\ k \in DOMAIN m) => xstr = <<d[k]>>

\* A step that is a call of exif_metadata_add_gps_info on an open image.
AddGpsStep == ~gps_added /\ gps_added'

\* C15: s_try_update_gps_info writes the version marker "2 0 0 0" only into
\* a tag set that holds none, so a version marker that the image holds
\* before the call survives exif_metadata_add_gps_info; the datum is
\* "WGS-84" after it.
C15_VersionSurvives ==
    [][(AddGpsStep /\ xrc' = 0 /\ xphase' = "open") =>
          /\ EXIF_KEY_GPS_VERSION \in DOMAIN img_exif =>
                 exif'[EXIF_KEY_GPS_VERSION] = img_exif[EXIF_KEY_GPS_VERSION]
          /\ EXIF_KEY_GPS_VERSION \notin DOMAIN img_exif =>
                 exif'[EXIF_KEY_GPS_VERSION] = Str("2 0 0 0")
          /\ exif'[EXIF_KEY_GPS_FORMAT] = Str("WGS-84")]_vars

\* C16: when a write needs more room (capacity - cursor < count), one growth
\* step makes the capacity max(old capacity * 1.2, old capacity + count),
\* and that is the capacity the write copies into.
C16_GrowthIsMax ==
    [][(pc = "write" /\ NeedsGrowth /\ pc' = "write" /\ phase' = "open"
           /\ buf' # buf) =>
          /\ capacity' = IF GrownCapacity(capacity) >= capacity + wcount
                         THEN GrownCapacity(capacity)
                         ELSE capacity + wcount
          /\ ~NeedsGrowth']_vars

\* v is "deg/1 min/1 sec/1000000" with deg, min and sec the floors that C17
\* names, for the coordinate of magnitude a / Scale: deg = floor(a),
\* min = floor((a - deg) * 60), sec = floor(((a - deg) * 60 - min) * 60 *
\* 1000000), each floor f of x stated as f <= x < f + 1 over the common
\* denominator Scale.
IsDmsOfMagnitude(v, a) ==
    LET deg == v[2]
        min == v[4]
        sec == v[6]
        minfrac == (a - deg * Scale) * 60
        secfrac == (minfrac - min * Scale) * 60 * 1000000
    IN  /\ Len(v) = 7
        /\ v[1] = "dms"
        /\ v[3] = 1 /\ v[5] = 1 /\ v[7] = 1000000
        /\ deg * Scale <= a /\ a < (deg + 1) * Scale
        /\ min * Scale <= minfrac /\ minfrac < (min + 1) * Scale
        /\ sec * Scale <= secfrac /\ secfrac < (sec + 1) * Scale
        /\ 0 <= min /\ min < 60
        /\ 0 <= sec /\ sec < 60000000
        /\ a = 0 => (deg = 0 /\ min = 0 /\ sec = 0)

\* C17: the latitude and the longitude written are the degrees, minutes and
\* seconds of the magnitude of the input, as "deg/1 min/1 sec/1000000", with
\* 0 <= min < 60 and 0 <= sec < 60000000; they depend on the magnitude only,
\* and 0 gives 0, 0, 0.
C17_DegMinSec ==
    GpsAdded =>
        /\ IsDmsOfMagnitude(exif[EXIF_KEY_GPS_LAT],
                            IF xargs[1] < 0 THEN 0 - xargs[1] ELSE xargs[1])
        /\ IsDmsOfMagnitude(exif[EXIF_KEY_GPS_LON],
                            IF xargs[2] < 0 THEN 0 - xargs[2] ELSE xargs[2])

\* C17, reached: a southern latitude that is no whole number of degrees nor
\* of minutes, beside the northern longitude of the same magnitude, which
\* gets the same value.
C17_Witness ==
    /\ GpsAdded
    /\ xargs[1] < 0
    /\ xargs[2] = 0 - xargs[1]
    /\ exif[EXIF_KEY_GPS_LAT][2] = 0
    /\ exif[EXIF_KEY_GPS_LAT][4] > 0
    /\ exif[EXIF_KEY_GPS_LAT][6] > 0
    /\ exif[EXIF_KEY_GPS_LON] = exif[EXIF_KEY_GPS_LAT]

\* The eight tags exif_metadata_add_gps_info writes.
WrittenGpsKeys ==
    {EXIF_KEY_GPS_VERSION, EXIF_KEY_GPS_FORMAT, EXIF_KEY_GPS_ALT_REF,
     EXIF_KEY_GPS_ALT, EXIF_KEY_GPS_LAT_REF, EXIF_KEY_GPS_LAT,
     EXIF_KEY_GPS_LON_REF, EXIF_KEY_GPS_LON}

\* An XMP key whose tag name starts with "GPS".
StartsWithGps(k) ==
    /\ Len(k.name) >= 3
    /\ k.name[1] = "G" /\ k.name[2] = "P" /\ k.name[3] = "S"

\* Dictionary d holds exactly the tags of dictionary img that g does not
\* count as GPS tags, with the values they have in img, beside its GPS tags.
KeepsOtherTags(d, img, g(_)) ==
    /\ {k \in DOMAIN d : ~g(k)} = {k \in DOMAIN img : ~g(k)}
    /\ \A k \in DOMAIN img : ~g(k) => d[k] = img[k]

\* A tag of group GPSInfo.
InGpsInfo(k) == k.group = "GPSInfo"

\* C18: exif_metadata_add_gps_info deletes before it inserts.  After a
\* successful call the EXIF dictionary holds, in group GPSInfo, the eight
\* tags the call writes and no other, the XMP dictionary holds no tag whose
\* name starts with "GPS", and every other tag of the image is there with
\* its value; when the deletion step fails no tag has been inserted.
C18_DeleteThenInsert ==
    [][/\ (AddGpsStep /\ xrc' = 0 /\ xphase' = "open") =>
              /\ {k \in DOMAIN exif' : InGpsInfo(k)} = WrittenGpsKeys
              /\ \A k \in DOMAIN xmp' : ~StartsWithGps(k)
              /\ KeepsOtherTags(exif', img_exif, InGpsInfo)
              /\ KeepsOtherTags(xmp', img_xmp, StartsWithGps)
       /\ (AddGpsStep
              /\ xargs'[4] \in {"destroy_exif_fails", "destroy_xmp_fails"}) =>
              /\ xrc' # 0
              /\ DOMAIN exif' \subseteq DOMAIN img_exif
              /\ DOMAIN xmp' \subseteq DOMAIN img_xmp]_vars

\* C18, reached: the image held GPSInfo tags the call does not write and XMP
\* tags named GPS..., which are gone, and other tags (an XMP tag named GP
\* among them), which are kept.
C18_Witness ==
    /\ GpsAdded
    /\ img_exif = ExifWithGps
    /\ img_xmp = XmpWithGps
    /\ ExifGpsSpeed \notin DOMAIN exif
    /\ ExifMake \in DOMAIN exif
    /\ XmpGpsLat \notin DOMAIN xmp
    /\ XmpGp \in DOMAIN xmp
    /\ XmpRating \in DOMAIN xmp

\* C19: right after either constructor the cursor is 0, the storage is not
\* marked as handed over and no growth is counted; buf_stream_new gives
\* length = capacity = size of the span, buf_stream_new_empty gives length 0
\* and capacity = initial size.
C19_DefinedInitialState ==
    [][(phase = "none" /\ phase' = "open") =>
          /\ curr' = 0
          /\ moved' # 1
          /\ incr_count' = 0
          /\ kind' = "wrap" =>
                 length' = Len(blob') /\ capacity' = Len(blob')
          /\ kind' = "empty" =>
                 length' = 0 /\ capacity' = Len(heap'[buf'].data)]_vars

\* C20: once buf_stream_free has returned, every block the stream allocated
\* (the copy of buf_stream_new, the storage of buf_stream_new_empty, the
\* blocks of s_buf_stream_incr) has been freed, once, or is the block that
\* buf_stream_get_data handed to the caller.
C20_NoLeak ==
    phase = "freed" =>
        /\ ~badfree
        /\ \A b \in Blocks :
               (heap[b].owner = "stream" /\ heap[b].st = "live") =>
                   b = detached

\* C21: the stream never frees the buffer its caller supplied and never
\* frees a block twice: every free it makes, in s_buf_stream_incr and in
\* s_buf_stream_free, is of a live block that the stream allocated, and a
\* second buf_stream_free changes nothing.
C21_FreesOwnLiveBlocks ==
    [][/\ ~badfree'
       /\ \A b \in Blocks :
              (heap[b].st = "live" /\ heap'[b].st = "freed") =>
                  heap[b].owner = "stream"
       /\ (phase = "freed" /\ BufStreamFree) => UNCHANGED vars]_vars

\* C22: exif_get_tag_string is read-only.  After a lookup the EXIF and the
\* XMP dictionary hold no key beside those of the image's metadata, so a
\* key that was looked up and is not there has not become present for a
\* later lookup or a later save.
C22_LookupAddsNoKey ==
    (xop = "get_tag" /\ HasImage) =>
        /\ DOMAIN exif \subseteq DOMAIN img_exif
        /\ DOMAIN xmp \subseteq DOMAIN img_xmp

\* C23: the array native_get_tags_from_path returns has tag_len + 1 slots,
\* the last one holding the mime type, and the copy of the mime type lies
\* within its own block: the block has at least strlen(mime) + 1 bytes, so
\* the terminating NUL at index strlen(mime) is inside it and the call
\* returns.
C23_MimeCopyInBounds ==
    (xop = "get_tags" /\ xargs[1] # "open_fails") =>
        LET mime == xargs[2]
            tag_len == xargs[3]
        IN  /\ xphase # "crashed"
            /\ Len(vals) = tag_len + 1
            /\ vals[tag_len + 1] = mime
            /\ mime # <<>> =>
                   /\ copied_mime.size >= Len(mime[1]) + 1
                   /\ copied_mime.written <= copied_mime.size

=============================================================================
